---- MODULE Spec2Model ----
(***************************************************************************)
(* Model of 乐达.py: column detection (detect_columns), field cleaning and  *)
(* age derivation (clean_id, calculate_age, age_category), report assembly *)
(* and highlighting (process_excel) and the batch driver (main).           *)
(*                                                                         *)
(* Four specifications share the variables below:                          *)
(*   SpecDetect  - a table is read cell by cell, then detect_columns runs  *)
(*   SpecAge     - calculate_age on an ID string at a current date         *)
(*   SpecReport  - process_excel after detection: extract, assemble, fill  *)
(*   SpecBatch   - main(): the loop over the .xlsx files                   *)
(***************************************************************************)
EXTENDS Integers, Sequences, FiniteSets, TLC

VARIABLES
    pc,        \* position of the running function
    df,        \* detect_columns: the table, one entry per column
    det,       \* detect_columns: its outcome
    id_card,   \* calculate_age: the argument
    today,     \* datetime.now() as <<year, month, day>>
    age,       \* calculate_age: the result
    rows,      \* process_excel: raw rows of the chosen columns
    records,   \* process_excel: base_df
    parts,     \* process_excel: parts, flattened in append order
    i,         \* process_excel: index of the band loop
    fills,     \* process_excel: fill colour per worksheet row
    isdir,     \* main: os.path.isdir(INPUT_DIR)
    listing,   \* main: os.listdir(INPUT_DIR)
    files,     \* main: excel_files
    outputs,   \* main: names present in OUTPUT_DIR
    k,         \* main: index of the file loop
    log        \* main: printed lines

vars == <<pc, df, det, id_card, today, age, rows, records, parts, i, fills,
          isdir, listing, files, outputs, k, log>>
detVars == <<df, det>>
ageVars == <<id_card, age>>
repVars == <<rows, records, parts, i, fills>>
batVars == <<isdir, listing, files, outputs, k, log>>

\* Absent value of an optional integer: None is <<>>, the integer n is <<n>>.
None == <<>>
Some(n) == <<n>>

(***************************************************************************)
(* detect_columns                                                          *)
(***************************************************************************)

\* Bounds of the tables read.
MaxCols == 3
MaxCells == 5

\* What a non-missing cell is to the three regular expressions:
\*   name     2-4 CJK ideographs and nothing else
\*   phone    holds an 11-digit phone number and no ID number
\*   id       holds an 18-character ID number and no phone number (born 20xx)
\*   idphone  holds an ID number whose digits also hold a phone number
\*            (born 19xx: 19YYMMDDnnn is 1, [3-9], nine digits)
\*   other    matches none of the three
Classes == {"name", "phone", "id", "idphone", "other"}
Fields == {"name", "phone", "id"}

\* re.search / re.fullmatch of the field's pattern on a value of the class
Hit(field, cls) ==
    CASE field = "phone" -> cls \in {"phone", "idphone"}
      [] field = "id"    -> cls \in {"id", "idphone"}
      [] field = "name"  -> cls = "name"

EmptyColumn == [cls \in Classes |-> 0]

RECURSIVE SumOver(_, _)
SumOver(f, S) ==
    IF S = {} THEN 0
    ELSE LET x == CHOOSE y \in S : TRUE IN f[x] + SumOver(f, S \ {x})

\* the sample: the non-missing cells of the column (first 100)
SampleCap == 100
SampleSize(col) ==
    col["name"] + col["phone"] + col["id"] + col["idphone"] + col["other"]
RawScore(col, field) == SumOver(col, {cls \in Classes : Hit(field, cls)})

RECURSIVE TotalCells(_)
TotalCells(d) == IF d = <<>> THEN 0 ELSE SampleSize(Head(d)) + TotalCells(Tail(d))

Columns(d) == 1..Len(d)

\* scores[c][field] after normalisation, as the fraction <<numerator, denominator>>
scores(d, c, field) ==
    IF SampleSize(d[c]) > 0 THEN <<RawScore(d[c], field), SampleSize(d[c])>>
    ELSE <<0, 1>>

FracLess(a, b) == a[1] * b[2] < b[1] * a[2]

\* score > 0.3
AboveThreshold(s) == 10 * s[1] > 3 * s[2]

\* max(candidates, key=...): the first candidate in column order with the
\* greatest score
ArgMax(d, cand, field) ==
    CHOOSE c \in cand :
        /\ \A c2 \in cand : ~FracLess(scores(d, c, field), scores(d, c2, field))
        /\ \A c2 \in cand : c2 < c => FracLess(scores(d, c2, field), scores(d, c, field))

\* lines 97-99: the best column of the field, or 0 (None) below the threshold
FirstPick(d, field) ==
    LET best == ArgMax(d, Columns(d), field)
    IN IF AboveThreshold(scores(d, best, field)) THEN best ELSE 0

\* lines 110-118 and 119-126: keep the pick if it is set and unused, otherwise
\* pick again among the unused columns; yields <<column, used>>
Reselect(d, field, pick, used) ==
    IF pick # 0 /\ pick \notin used THEN <<pick, used \cup {pick}>>
    ELSE LET candidates == Columns(d) \ used
         IN IF candidates = {} THEN <<pick, used>>
            ELSE LET best == ArgMax(d, candidates, field)
                 IN IF AboveThreshold(scores(d, best, field)) THEN <<best, used>>
                    ELSE <<0, used>>

\* detect_columns(df): a table without columns makes max() raise on line 97
detect_columns(d) ==
    IF Len(d) = 0
    THEN [status |-> "max_empty", name_col |-> 0, phone_col |-> 0, id_col |-> 0,
          missing |-> {}]
    ELSE
    LET name0  == FirstPick(d, "name")
        phone0 == FirstPick(d, "phone")
        id_col == FirstPick(d, "id")
        used1  == IF id_col # 0 THEN {id_col} ELSE {}
        ph     == Reselect(d, "phone", phone0, used1)
        nm     == Reselect(d, "name", name0, ph[2])
        missing == (IF nm[1] = 0 THEN {"name"} ELSE {})
                   \cup (IF ph[1] = 0 THEN {"phone"} ELSE {})
                   \cup (IF id_col = 0 THEN {"id"} ELSE {})
    IN [status |-> IF missing # {} THEN "missing" ELSE "ok",
        name_col |-> nm[1], phone_col |-> ph[1], id_col |-> id_col,
        missing |-> missing]

NoDet == [status |-> "none", name_col |-> 0, phone_col |-> 0, id_col |-> 0,
          missing |-> {}]

(***************************************************************************)
(* clean_phone, clean_id, calculate_age, age_category                      *)
(* A string is a sequence of one-character strings.                        *)
(***************************************************************************)

DigitChars == <<"0", "1", "2", "3", "4", "5", "6", "7", "8", "9">>
IsDigit(ch) == ch \in {"0", "1", "2", "3", "4", "5", "6", "7", "8", "9"}
DigitVal(ch) == (CHOOSE n \in 1..10 : DigitChars[n] = ch) - 1
InRange(ch, lo, hi) == IsDigit(ch) /\ DigitVal(ch) >= lo /\ DigitVal(ch) <= hi

\* str(n) for n of at most the given number of digits, zero-padded (the
\* writer of an ID number); the inverse direction is ParseInt
RECURSIVE FormatInt(_, _)
FormatInt(n, width) ==
    IF width = 0 THEN <<>>
    ELSE Append(FormatInt(n \div 10, width - 1), DigitChars[(n % 10) + 1])

RECURSIVE ParseInt(_)
ParseInt(s) ==
    IF s = <<>> THEN 0
    ELSE 10 * ParseInt(SubSeq(s, 1, Len(s) - 1)) + DigitVal(s[Len(s)])

\* str.upper() on the alphabet used here
Upper(s) == [n \in 1..Len(s) |-> IF s[n] = "x" THEN "X" ELSE s[n]]

\* str.strip()
RECURSIVE LStrip(_)
LStrip(s) == IF s # <<>> /\ Head(s) = " " THEN LStrip(Tail(s)) ELSE s
RECURSIVE RStrip(_)
RStrip(s) ==
    IF s # <<>> /\ s[Len(s)] = " " THEN RStrip(SubSeq(s, 1, Len(s) - 1)) ELSE s
Strip(s) == LStrip(RStrip(s))

\* 1[3-9]\d{9} matches s at position p
PhoneAt(s, p) ==
    /\ p + 10 <= Len(s)
    /\ s[p] = "1"
    /\ InRange(s[p + 1], 3, 9)
    /\ \A q \in (p + 2)..(p + 10) : IsDigit(s[q])

\* [1-9]\d{5}(19|20)\d{2}(0[1-9]|1[0-2])(0[1-9]|[12]\d|3[01])\d{3}[\dX]
\* matches s at position p
IdAt(s, p) ==
    /\ p + 17 <= Len(s)
    /\ InRange(s[p], 1, 9)
    /\ \A q \in (p + 1)..(p + 5) : IsDigit(s[q])
    /\ \/ s[p + 6] = "1" /\ s[p + 7] = "9"
       \/ s[p + 6] = "2" /\ s[p + 7] = "0"
    /\ IsDigit(s[p + 8]) /\ IsDigit(s[p + 9])
    /\ \/ s[p + 10] = "0" /\ InRange(s[p + 11], 1, 9)
       \/ s[p + 10] = "1" /\ InRange(s[p + 11], 0, 2)
    /\ \/ s[p + 12] = "0" /\ InRange(s[p + 13], 1, 9)
       \/ InRange(s[p + 12], 1, 2) /\ IsDigit(s[p + 13])
       \/ s[p + 12] = "3" /\ InRange(s[p + 13], 0, 1)
    /\ \A q \in (p + 14)..(p + 16) : IsDigit(s[q])
    /\ (IsDigit(s[p + 17]) \/ s[p + 17] = "X")

\* the 'nan' that astype(str) makes of a missing cell
NaN == <<"n", "a", "n">>

\* clean_phone(phone_str): the leftmost match, or ''
clean_phone(phone_str) ==
    LET s == Strip(phone_str)
        hits == {p \in 1..Len(s) : PhoneAt(s, p)}
    IN IF phone_str = <<>> \/ hits = {} THEN <<>>
       ELSE LET p == CHOOSE q \in hits : \A r \in hits : q <= r
            IN SubSeq(s, p, p + 10)

\* clean_id(id_str): the leftmost match in the upper-cased text, or ''
clean_id(id_str) ==
    LET s == Upper(Strip(id_str))
        hits == {p \in 1..Len(s) : IdAt(s, p)}
    IN IF id_str = <<>> \/ hits = {} THEN <<>>
       ELSE LET p == CHOOSE q \in hits : \A r \in hits : q <= r
            IN SubSeq(s, p, p + 17)

IsLeap(y) == (y % 4 = 0 /\ y % 100 # 0) \/ y % 400 = 0
DaysInMonth(y, m) ==
    IF m = 2 THEN (IF IsLeap(y) THEN 29 ELSE 28)
    ELSE IF m \in {4, 6, 9, 11} THEN 30 ELSE 31
ValidDate(y, m, d) == m \in 1..12 /\ d >= 1 /\ d <= DaysInMonth(y, m)

\* datetime.strptime(birth_str, '%Y%m%d'): <<y, m, d>>, or None when it raises
strptime(birth_str) ==
    IF Len(birth_str) # 8 \/ \E q \in 1..Len(birth_str) : ~IsDigit(birth_str[q])
    THEN None
    ELSE LET y == ParseInt(SubSeq(birth_str, 1, 4))
             m == ParseInt(SubSeq(birth_str, 5, 6))
             d == ParseInt(SubSeq(birth_str, 7, 8))
         IN IF ValidDate(y, m, d) THEN <<y, m, d>> ELSE None

\* a comparison of the months alone
BeforeBirthdayMonthOnly(now, birth) == now[2] < birth[2]

\* (today.month, today.day) < (birth_date.month, birth_date.day)
BeforeBirthday(now, birth) ==
    now[2] < birth[2] \/ (now[2] = birth[2] /\ now[3] < birth[3])

\* calculate_age(id_card) when datetime.now() is the date now
calculate_age(card, now) ==
    IF card = <<>> THEN None
    ELSE LET birth_date == strptime(SubSeq(card, 7, 14))
         IN IF birth_date = None THEN None
            ELSE Some(now[1] - birth_date[1]
                      - (IF BeforeBirthday(now, birth_date) THEN 1 ELSE 0))

\* the bands with the thresholds taken inclusively
age_category_inclusive(a) ==
    IF a = None THEN "Unknown"
    ELSE IF a[1] <= 7 THEN "Child"
    ELSE IF a[1] <= 23 THEN "Youth"
    ELSE IF a[1] <= 60 THEN "Adult"
    ELSE "Senior"

\* The age bands: Child is '0-7', Youth '7-23', Adult '23-60', Senior '60+',
\* Unknown the band of a missing age.
age_category(a) ==
    IF a = None THEN "Unknown"
    ELSE IF a[1] < 7 THEN "Child"
    ELSE IF a[1] < 23 THEN "Youth"
    ELSE IF a[1] < 60 THEN "Adult"
    ELSE "Senior"

\* an ID number as a spreadsheet would hold it: region code, birth date,
\* sequence number, check character
IdString(y, m, d, last) ==
    <<"1", "1", "0", "1", "0", "1">> \o FormatInt(y, 4) \o FormatInt(m, 2)
        \o FormatInt(d, 2) \o <<"1", "2", "3", last>>

(***************************************************************************)
(* SpecDetect: pd.read_excel yields a table, detect_columns runs on it     *)
(***************************************************************************)

IdleDet == df = <<>> /\ det = NoDet
IdleAge == id_card = <<>> /\ age = None
IdleRep == rows = <<>> /\ records = <<>> /\ parts = <<>> /\ i = 0 /\ fills = <<>>
IdleBat ==
    /\ isdir = TRUE /\ listing = <<>> /\ files = <<>> /\ outputs = {} /\ k = 0
    /\ log = <<>>
NoDate == <<0, 0, 0>>

InitDetect ==
    /\ pc = "read"
    /\ df = <<>> /\ det = NoDet
    /\ today = NoDate
    /\ IdleAge /\ IdleRep /\ IdleBat

\* the table has one more column
AddColumn ==
    /\ pc = "read"
    /\ Len(df) < MaxCols
    /\ df' = Append(df, EmptyColumn)
    /\ UNCHANGED <<pc, det, today, ageVars, repVars, batVars>>

\* column c has one more non-missing cell, of class cls, among the first
\* SampleCap that make the sample
AddCell(c, cls) ==
    /\ pc = "read"
    /\ TotalCells(df) < MaxCells
    /\ SampleSize(df[c]) < SampleCap
    /\ df' = [df EXCEPT ![c][cls] = @ + 1]
    /\ UNCHANGED <<pc, det, today, ageVars, repVars, batVars>>

DetectColumns ==
    /\ pc = "read"
    /\ det' = detect_columns(df)
    /\ pc' = "detected"
    /\ UNCHANGED <<df, today, ageVars, repVars, batVars>>

NextDetect ==
    \/ AddColumn
    \/ \E c \in Columns(df), cls \in Classes : AddCell(c, cls)
    \/ DetectColumns

SpecDetect == InitDetect /\ [][NextDetect]_vars

(***************************************************************************)
(* SpecAge: calculate_age(clean_id(text)) at a current date                *)
(***************************************************************************)

BirthYears == {1900, 1999, 2000, 2023, 2024, 2026, 2099}
BirthMonths == {1, 2, 12}
BirthDays == {1, 28, 29, 30, 31}
TodayYears == {2024, 2026}

Todays ==
    {<<y, m, d>> : y \in TodayYears, m \in 1..12, d \in 1..31} \cap
    {t \in TodayYears \X (1..12) \X (1..31) : ValidDate(t[1], t[2], t[3])}

AgeIds == {IdString(y, m, d, "X") : y \in BirthYears, m \in BirthMonths, d \in BirthDays}

InitAge ==
    /\ pc = "age_start"
    /\ id_card \in AgeIds
    /\ today \in Todays
    /\ age = None
    /\ IdleDet /\ IdleRep /\ IdleBat

CalculateAge ==
    /\ pc = "age_start"
    /\ age' = calculate_age(clean_id(id_card), today)
    /\ pc' = "age_done"
    /\ UNCHANGED <<id_card, today, detVars, repVars, batVars>>

NextAge == CalculateAge

SpecAge == InitAge /\ [][NextAge]_vars

(***************************************************************************)
(* SpecReport: process_excel from the chosen columns to the styled sheet   *)
(***************************************************************************)

MaxRows == 3

category_order == <<"Adult", "Youth", "Child", "Senior", "Unknown">>

\* Series.replace('nan', ''): only a value that is exactly 'nan'
ReplaceNan(s) == IF s = NaN THEN <<>> ELSE s

\* lines 163-176: one record of base_df per row
ExtractRecord(r, raw, now) ==
    LET card == clean_id(ReplaceNan(raw.id))
        a == calculate_age(card, now)
    IN [row |-> r,
        name |-> Strip(ReplaceNan(raw.name)),
        phone |-> clean_phone(ReplaceNan(raw.phone)),
        id |-> card,
        age |-> a,
        cat |-> age_category(a)]

\* base_df[base_df[cat column] == cat]: the records of the band, in row order
RECURSIVE SelectCat(_, _)
SelectCat(s, cat) ==
    IF s = <<>> THEN <<>>
    ELSE IF Head(s).cat = cat THEN <<Head(s)>> \o SelectCat(Tail(s), cat)
    ELSE SelectCat(Tail(s), cat)

\* lines 199-205
sub_condition(rec, cat) ==
    IF cat = "Adult" THEN rec.age[1] >= 23 /\ rec.age[1] < 25
    ELSE IF cat = "Youth" THEN rec.age[1] >= 21 /\ rec.age[1] < 23
    ELSE FALSE

\* cat_data[sub_condition] (flag TRUE) and cat_data[~sub_condition] (flag FALSE)
RECURSIVE SelectSub(_, _, _)
SelectSub(s, cat, flag) ==
    IF s = <<>> THEN <<>>
    ELSE IF sub_condition(Head(s), cat) = flag
         THEN <<Head(s)>> \o SelectSub(Tail(s), cat, flag)
    ELSE SelectSub(Tail(s), cat, flag)

DataRow(rec) ==
    [tag |-> "data", name |-> rec.name, phone |-> rec.phone, id |-> rec.id,
     age |-> rec.age, cat |-> rec.cat, row |-> rec.row]

\* str(n)
RECURSIVE Str(_)
Str(n) == IF n < 10 THEN <<DigitChars[n + 1]>>
          ELSE Append(Str(n \div 10), DigitChars[(n % 10) + 1])

\* the label of the count row: a prefix, then the count
stats_row(total_count) ==
    [tag |-> "count", name |-> <<"#">> \o Str(total_count), phone |-> <<>>,
     id |-> <<>>, age |-> None, cat |-> "", row |-> 0]

empty_row ==
    [tag |-> "blank", name |-> <<>>, phone |-> <<>>, id |-> <<>>, age |-> None,
     cat |-> "", row |-> 0]

\* a blank row after every band
NeedsBlankAlways(idx) == idx < Len(category_order)

\* line 228
NeedsBlank(idx) == idx < Len(category_order) - 1

MapData(s) == [n \in 1..Len(s) |-> DataRow(s[n])]

\* the sub rows before the main rows
BandPartSubFirst(recs, idx) ==
    LET cat == category_order[idx + 1]
        cat_data == SelectCat(recs, cat)
        main_data == SelectSub(cat_data, cat, FALSE)
        sub_data == SelectSub(cat_data, cat, TRUE)
    IN IF cat_data = <<>> THEN <<>>
       ELSE MapData(sub_data) \o MapData(main_data)
            \o <<stats_row(Len(cat_data))>>
            \o (IF NeedsBlank(idx) THEN <<empty_row>> ELSE <<>>)

\* the count taken of the main rows alone
BandPartMainCount(recs, idx) ==
    LET cat == category_order[idx + 1]
        cat_data == SelectCat(recs, cat)
        main_data == SelectSub(cat_data, cat, FALSE)
        sub_data == SelectSub(cat_data, cat, TRUE)
    IN IF cat_data = <<>> THEN <<>>
       ELSE MapData(main_data) \o MapData(sub_data)
            \o <<stats_row(Len(main_data))>>
            \o (IF NeedsBlank(idx) THEN <<empty_row>> ELSE <<>>)

\* lines 194-236: what one pass of the band loop appends to parts
BandPart(recs, idx) ==
    LET cat == category_order[idx + 1]
        cat_data == SelectCat(recs, cat)
        main_data == SelectSub(cat_data, cat, FALSE)
        sub_data == SelectSub(cat_data, cat, TRUE)
    IN IF cat_data = <<>> THEN <<>>
       ELSE MapData(main_data) \o MapData(sub_data)
            \o <<stats_row(Len(cat_data))>>
            \o (IF NeedsBlank(idx) THEN <<empty_row>> ELSE <<>>)

\* the fill with the upper ends of the two windows taken inclusively
HighlightInclusive(r) ==
    IF r.name # <<>> /\ Strip(r.name) # <<>> /\ r.cat # ""
    THEN IF r.cat = "Senior" \/ r.cat = "Child" THEN "yellow"
         ELSE IF r.cat = "Adult" /\ r.age # None
              THEN (IF 23 <= r.age[1] /\ r.age[1] <= 25 THEN "green" ELSE "none")
         ELSE IF r.cat = "Youth" /\ r.age # None
              THEN (IF 21 <= r.age[1] /\ r.age[1] <= 23 THEN "blue" ELSE "none")
         ELSE "none"
    ELSE "none"

\* lines 279-308: the fill of a worksheet row
Highlight(r) ==
    IF r.name # <<>> /\ Strip(r.name) # <<>> /\ r.cat # ""
    THEN IF r.cat = "Senior" \/ r.cat = "Child" THEN "yellow"
         ELSE IF r.cat = "Adult" /\ r.age # None
              THEN (IF 23 <= r.age[1] /\ r.age[1] < 25 THEN "green" ELSE "none")
         ELSE IF r.cat = "Youth" /\ r.age # None
              THEN (IF 21 <= r.age[1] /\ r.age[1] < 23 THEN "blue" ELSE "none")
         ELSE "none"
    ELSE "none"

\* the inputs: texts of the name, phone and ID cells
Li == <<"L", "i">>
GoodPhone == <<"1", "3", "9", "1", "2", "3", "4", "5", "6", "7", "8">>
Bad == <<"b", "a", "d">>
ReportToday == <<2026, 6, 15>>

\* birth dates that put the age at ReportToday on both sides of every
\* threshold: 6|7, 20|21, 22|23, 24|25, 59|60, and a birth date in the future
BirthDates ==
    {<<2019, 6, 16>>, <<2019, 6, 15>>, <<2005, 6, 16>>, <<2005, 6, 15>>,
     <<2003, 6, 16>>, <<2003, 6, 15>>, <<2001, 6, 15>>,
     <<1966, 6, 16>>, <<1966, 6, 15>>, <<2030, 1, 1>>}

\* the rows: a well-formed row for each birth date; a row of age 24 whose
\* name is blank, whose phone is malformed and whose ID ends in a lower-case
\* x inside other text; a row whose birth date is no calendar date, with a
\* padded name and a phone number inside other text; a row of missing
\* cells; a row with a malformed ID
RawRows ==
    {[name |-> Li, phone |-> GoodPhone, id |-> IdString(b[1], b[2], b[3], "5")]
        : b \in BirthDates}
    \cup
    {[name |-> <<" ">>, phone |-> Bad,
      id |-> <<"n", "o", " ">> \o IdString(2001, 6, 16, "x") \o <<"0">>],
     [name |-> <<" ", "L", "i", " ">>, phone |-> <<"t">> \o GoodPhone \o <<"9">>,
      id |-> IdString(1990, 2, 30, "X")],
     [name |-> NaN, phone |-> NaN, id |-> NaN],
     [name |-> Li, phone |-> <<>>, id |-> Bad]}

InitReport ==
    /\ pc = "rep_read"
    /\ today = ReportToday
    /\ rows = <<>> /\ records = <<>> /\ parts = <<>> /\ i = 0 /\ fills = <<>>
    /\ IdleDet /\ IdleAge /\ IdleBat

\* the table has one more row
ReadRow(raw) ==
    /\ pc = "rep_read"
    /\ Len(rows) < MaxRows
    /\ rows' = Append(rows, raw)
    /\ UNCHANGED <<pc, today, records, parts, i, fills, detVars, ageVars, batVars>>

\* lines 162-185
Extract ==
    /\ pc = "rep_read"
    /\ records' = [r \in 1..Len(rows) |-> ExtractRecord(r, rows[r], today)]
    /\ pc' = "assembling"
    /\ UNCHANGED <<today, rows, parts, i, fills, detVars, ageVars, batVars>>

\* one pass of the loop of line 193
AssembleBand ==
    /\ pc = "assembling"
    /\ i < Len(category_order)
    /\ parts' = parts \o BandPart(records, i)
    /\ i' = i + 1
    /\ UNCHANGED <<pc, today, rows, records, fills, detVars, ageVars, batVars>>

\* line 239: pd.concat raises on an empty list of parts
Concat ==
    /\ pc = "assembling"
    /\ i = Len(category_order)
    /\ pc' = IF parts = <<>> THEN "rep_failed" ELSE "assembled"
    /\ UNCHANGED <<today, rows, records, parts, i, fills, detVars, ageVars, batVars>>

\* lines 242-308
WriteSheet ==
    /\ pc = "assembled"
    /\ fills' = [r \in 1..Len(parts) |-> Highlight(parts[r])]
    /\ pc' = "written"
    /\ UNCHANGED <<today, rows, records, parts, i, detVars, ageVars, batVars>>

NextReport ==
    \/ \E raw \in RawRows : ReadRow(raw)
    \/ Extract
    \/ AssembleBand
    \/ Concat
    \/ WriteSheet

SpecReport == InitReport /\ [][NextReport]_vars

(***************************************************************************)
(* SpecBatch: main()                                                       *)
(***************************************************************************)

MaxFiles == 3

\* What process_excel does on a file: it returns ("ok"), it raises the
\* ValueError of detect_columns, of the manual column check or of pd.concat
\* ("value_error"), or reading or writing raises ("io_error").
Fates == {"ok", "value_error", "io_error"}

\* A directory entry: whether its name ends in .xlsx in any letter case,
\* whether OUTPUT_DIR already holds the name, what process_excel does on it.
Entries ==
    {[xlsx |-> TRUE, exists |-> e, fate |-> f] : e \in BOOLEAN, f \in Fates}
    \cup {[xlsx |-> FALSE, exists |-> FALSE, fate |-> "io_error"]}

\* line 319: the names of the entries that end in .xlsx, in listing order;
\* a name is the position of the entry in the listing
RECURSIVE excel_files(_, _)
excel_files(l, n) ==
    IF n > Len(l) THEN <<>>
    ELSE IF l[n].xlsx THEN <<n>> \o excel_files(l, n + 1)
    ELSE excel_files(l, n + 1)

InitBatch ==
    /\ pc = "main"
    /\ isdir \in BOOLEAN
    /\ listing = <<>>
    /\ files = <<>> /\ k = 0 /\ log = <<>> /\ outputs = {}
    /\ today = NoDate
    /\ IdleDet /\ IdleAge /\ IdleRep

\* the input directory holds one more entry
AddEntry(e) ==
    /\ pc = "main"
    /\ isdir
    /\ Len(listing) < MaxFiles
    /\ listing' = Append(listing, e)
    /\ outputs' = IF e.exists THEN outputs \cup {Len(listing) + 1} ELSE outputs
    /\ UNCHANGED <<pc, today, isdir, files, k, log, detVars, ageVars, repVars>>

\* lines 313-322
Start ==
    /\ pc = "main"
    /\ IF ~isdir
       THEN /\ log' = Append(log, <<"no_dir", 0>>)
            /\ pc' = "exit1"
            /\ UNCHANGED files
       ELSE LET fs == excel_files(listing, 1)
            IN /\ files' = fs
               /\ IF fs = <<>>
                  THEN /\ log' = Append(log, <<"no_files", 0>>)
                       /\ pc' = "returned"
                  ELSE /\ pc' = "loop"
                       /\ UNCHANGED log
    /\ UNCHANGED <<today, isdir, listing, outputs, k, detVars, ageVars, repVars>>

\* an except clause for ValueError alone
CaughtValueError(fate) == fate = "value_error"

\* what the except clause of line 334 catches: every fate of process_excel
\* here is an Exception
Caught(fate) == fate \in {"value_error", "io_error"}

\* lines 324-335: one pass of the file loop
HandleFile ==
    /\ pc = "loop"
    /\ k < Len(files)
    /\ LET filename == files[k + 1]
           fate == listing[filename].fate
       IN IF filename \in outputs
          THEN /\ log' = Append(log, <<"skipped", filename>>)
               /\ k' = k + 1
               /\ UNCHANGED <<pc, outputs>>
          ELSE IF fate = "ok"
          THEN /\ log' = Append(log, <<"processed", filename>>)
               /\ outputs' = outputs \cup {filename}
               /\ k' = k + 1
               /\ UNCHANGED pc
          ELSE IF Caught(fate)
          THEN /\ log' = Append(log, <<"failed", filename>>)
               /\ k' = k + 1
               /\ UNCHANGED <<pc, outputs>>
          ELSE /\ pc' = "crashed"
               /\ UNCHANGED <<log, k, outputs>>
    /\ UNCHANGED <<today, isdir, listing, files, detVars, ageVars, repVars>>

\* line 337
Summary ==
    /\ pc = "loop"
    /\ k = Len(files)
    /\ log' = Append(log, <<"summary", 0>>)
    /\ pc' = "done"
    /\ UNCHANGED <<today, isdir, listing, files, outputs, k, detVars, ageVars, repVars>>

NextBatch ==
    \/ \E e \in Entries : AddEntry(e)
    \/ Start
    \/ HandleFile
    \/ Summary

SpecBatch == InitBatch /\ [][NextBatch]_vars

\* main runs to its end once started: a single thread, no blocking call
SpecBatchFair ==
    SpecBatch /\ WF_vars(Start) /\ WF_vars(HandleFile) /\ WF_vars(Summary)

(***************************************************************************)
(* Properties of detect_columns                                            *)
(***************************************************************************)

\* The strict priority chain: the best column of the field among the
\* candidates if its score is above 0.3 (ties to the first column), else 0.
ChainPick(d, cand, field) ==
    IF cand = {} THEN 0
    ELSE LET best == ArgMax(d, cand, field)
         IN IF AboveThreshold(scores(d, best, field)) THEN best ELSE 0
ChainId(d) == ChainPick(d, Columns(d), "id")
ChainPhone(d) == ChainPick(d, Columns(d) \ {ChainId(d)}, "phone")
ChainName(d) == ChainPick(d, Columns(d) \ {ChainId(d), ChainPhone(d)}, "name")
ChainUnresolved(d) ==
    (IF ChainId(d) = 0 THEN {"id"} ELSE {})
    \cup (IF ChainPhone(d) = 0 THEN {"phone"} ELSE {})
    \cup (IF ChainName(d) = 0 THEN {"name"} ELSE {})

\* C1: when detect_columns returns, the name, phone and ID columns are
\* pairwise distinct.
C1_DistinctColumns ==
    (pc = "detected" /\ det.status = "ok") =>
        /\ det.name_col # det.phone_col
        /\ det.name_col # det.id_col
        /\ det.phone_col # det.id_col

\* C4: detect_columns fails whenever the priority chain leaves a field
\* unresolved, the error names exactly the unresolved fields, and no
\* assignment with an unresolved field is returned.
C4_FailsOnUnresolved ==
    pc = "detected" =>
        /\ ChainUnresolved(df) # {} =>
              (det.status = "missing" /\ det.missing = ChainUnresolved(df))
        /\ det.status = "ok" => ChainUnresolved(df) = {}

\* C5: when detect_columns returns, its result is the sequential priority
\* resolution ID, then phone, then name.
C5_PriorityResolution ==
    (pc = "detected" /\ det.status = "ok") =>
        /\ det.id_col = ChainId(df)
        /\ det.phone_col = ChainPhone(df)
        /\ det.name_col = ChainName(df)

(***************************************************************************)
(* Properties of calculate_age                                             *)
(***************************************************************************)

\* the birth date written in characters 6..13 of the ID number
BirthOf(card) ==
    <<1000 * DigitVal(card[7]) + 100 * DigitVal(card[8]) + 10 * DigitVal(card[9])
        + DigitVal(card[10]),
      10 * DigitVal(card[11]) + DigitVal(card[12]),
      10 * DigitVal(card[13]) + DigitVal(card[14])>>

DateLE(a, b) ==
    \/ a[1] < b[1]
    \/ a[1] = b[1] /\ a[2] < b[2]
    \/ a[1] = b[1] /\ a[2] = b[2] /\ a[3] <= b[3]

AgeCase ==
    /\ pc = "age_done"
    /\ ValidDate(BirthOf(id_card)[1], BirthOf(id_card)[2], BirthOf(id_card)[3])

\* C3 as stated: for an accepted ID number with a calendar birth date, at any
\* current date, the age is non-negative, within 1 of the year difference,
\* and one less than it exactly when today is before the birthday.
C3_AgeNonNegative ==
    AgeCase =>
        LET b == BirthOf(id_card)
            diff == today[1] - b[1]
            before == today[2] < b[2] \/ (today[2] = b[2] /\ today[3] < b[3])
        IN /\ age # None
           /\ age[1] >= 0
           /\ age[1] \in {diff - 1, diff}
           /\ (age[1] = diff - 1) <=> before

\* C3 amended: the age is within 1 of the year difference, one less than it
\* exactly when today is before the birthday, and non-negative exactly
\* when the birth date is not after the current date.
C3_AgeWithinOne ==
    AgeCase =>
        LET b == BirthOf(id_card)
            diff == today[1] - b[1]
            before == today[2] < b[2] \/ (today[2] = b[2] /\ today[3] < b[3])
        IN /\ age # None
           /\ age[1] \in {diff - 1, diff}
           /\ (age[1] = diff - 1) <=> before
           /\ (age[1] >= 0) <=> DateLE(b, today)

\* an age decremented because the birthday is still to come this year
C3_Witness ==
    /\ AgeCase
    /\ age # None
    /\ age[1] = today[1] - BirthOf(id_card)[1] - 1
    /\ age[1] >= 0

(***************************************************************************)
(* Properties of process_excel                                             *)
(***************************************************************************)

Bands == {"Adult", "Youth", "Child", "Senior", "Unknown"}
Rank(cat) == CHOOSE n \in 1..5 : category_order[n] = cat
Extracted == pc \in {"assembling", "assembled", "written", "rep_failed"}
Assembled == pc \in {"assembled", "written"}
DataPos == {p \in 1..Len(parts) : parts[p].tag = "data"}
CountPos == {p \in 1..Len(parts) : parts[p].tag = "count"}
BlankPos == {p \in 1..Len(parts) : parts[p].tag = "blank"}
NonEmptyBands == {records[r].cat : r \in 1..Len(records)}
InWindow(a, lo, hi) == a # None /\ a[1] >= lo /\ a[1] < hi
IsSub(r) ==
    \/ r.cat = "Adult" /\ InWindow(r.age, 23, 25)
    \/ r.cat = "Youth" /\ InWindow(r.age, 21, 23)

\* the extracted ID number is not empty and holds a calendar birth date
HasBirthDate(card) ==
    card # <<>> /\ ValidDate(BirthOf(card)[1], BirthOf(card)[2], BirthOf(card)[3])

\* C6: one record per row, whatever the row holds; its band is decided by
\* its age alone: Unknown iff no age, Child iff below 7, Youth iff 7..22,
\* Adult iff 23..59, Senior iff 60 or more; a malformed phone or ID or an
\* impossible birth date gives an empty string, no age and Unknown.
C6_BandPartition ==
    Extracted =>
        /\ Len(records) = Len(rows)
        /\ \A r \in 1..Len(records) :
              LET rec == records[r]
              IN /\ rec.row = r
                 /\ Cardinality({b \in Bands : rec.cat = b}) = 1
                 /\ (rec.cat = "Unknown") <=> (rec.age = None)
                 /\ (rec.age = None) <=> ~HasBirthDate(rec.id)
                 /\ rec.age # None =>
                       /\ (rec.cat = "Child") <=> (rec.age[1] < 7)
                       /\ (rec.cat = "Youth") <=> (7 <= rec.age[1] /\ rec.age[1] < 23)
                       /\ (rec.cat = "Adult") <=> (23 <= rec.age[1] /\ rec.age[1] < 60)
                       /\ (rec.cat = "Senior") <=> (rec.age[1] >= 60)
                 /\ rows[r].phone \in {Bad, NaN, <<>>} => rec.phone = <<>>
                 /\ rows[r].id \in {Bad, NaN, <<>>} => rec.id = <<>>

\* rows with a malformed ID, with an impossible birth date and with an age
\* on a band boundary have been extracted together
C6_Witness ==
    /\ pc = "written"
    /\ \E r \in 1..Len(records) : rows[r].id = Bad /\ records[r].cat = "Unknown"
    /\ \E r \in 1..Len(records) : records[r].id # <<>> /\ records[r].age = None
    /\ \E r \in 1..Len(records) : records[r].age = Some(7)

\* C7: the data rows are the records, each once; bands come in the order
\* Adult, Youth, Child, Senior, Unknown; within a band main rows precede
\* sub rows (Adult 23..24, Youth 21..22) and each subset keeps row order.
C7_DataRowsPermutation ==
    Assembled =>
        /\ \A r \in 1..Len(records) :
              Cardinality({p \in DataPos : parts[p].row = r}) = 1
        /\ \A p \in DataPos :
              /\ parts[p].row \in 1..Len(records)
              /\ parts[p] = [records[parts[p].row] EXCEPT !.row = @] @@ [tag |-> "data"]
        /\ \A p, q \in DataPos : p < q =>
              /\ Rank(parts[p].cat) <= Rank(parts[q].cat)
              /\ parts[p].cat = parts[q].cat =>
                    /\ ~(IsSub(parts[p]) /\ ~IsSub(parts[q]))
                    /\ (IsSub(parts[p]) <=> IsSub(parts[q])) =>
                          parts[p].row < parts[q].row
        /\ \A p \in DataPos : parts[p].cat \notin {"Adult", "Youth"} => ~IsSub(parts[p])

\* a sub row that stood before a main row of its band now follows it
C7_Witness ==
    /\ pc = "written"
    /\ \E p, q \in DataPos :
          /\ p < q /\ parts[p].cat = parts[q].cat
          /\ parts[p].row > parts[q].row
          /\ IsSub(parts[q]) /\ ~IsSub(parts[p])

\* the count a count row shows
CountOf(r) == ParseInt(Tail(r.name))

\* C8: every non-empty band has exactly one count row, right after the
\* band's last data row, showing the number of data rows of the band; an
\* empty band has none.
C8_CountRows ==
    Assembled =>
        /\ \A p \in CountPos :
              /\ p > 1 /\ parts[p - 1].tag = "data"
              /\ \A q \in DataPos : parts[q].cat = parts[p - 1].cat => q < p
              /\ CountOf(parts[p]) =
                    Cardinality({q \in DataPos : parts[q].cat = parts[p - 1].cat})
        /\ \A b \in Bands :
              Cardinality({p \in CountPos : p > 1 /\ parts[p - 1].cat = b})
                 = IF b \in NonEmptyBands THEN 1 ELSE 0
        /\ Cardinality(CountPos) = Cardinality(NonEmptyBands)

\* a band with main and sub rows and a second band, each with its count
C8_Witness ==
    /\ pc = "written"
    /\ \E p \in CountPos : CountOf(parts[p]) = 2 /\ IsSub(parts[p - 1])
                           /\ ~IsSub(parts[p - 2])
    /\ Cardinality(CountPos) = 2

\* C9: a data row with a name is green iff it is in the Adult sub subset,
\* blue iff in the Youth sub subset, yellow iff its band is Child or
\* Senior, and has no fill otherwise; data rows without a name, count rows
\* and blank rows have no fill.
C9_HighlightAgreesWithSplit ==
    pc = "written" =>
        /\ Len(fills) = Len(parts)
        /\ \A p \in 1..Len(parts) :
              IF parts[p].tag = "data" /\ parts[p].name # <<>>
              THEN /\ (fills[p] = "green") <=>
                         (parts[p].cat = "Adult" /\ sub_condition(parts[p], "Adult"))
                   /\ (fills[p] = "blue") <=>
                         (parts[p].cat = "Youth" /\ sub_condition(parts[p], "Youth"))
                   /\ (fills[p] = "yellow") <=> (parts[p].cat \in {"Child", "Senior"})
                   /\ (fills[p] = "none") <=>
                         ~(IsSub(parts[p]) \/ parts[p].cat \in {"Child", "Senior"})
              ELSE fills[p] = "none"

\* a green row, a blue row and a row of age 24 without a name
C9_Witness ==
    /\ pc = "written"
    /\ \E p \in DataPos : fills[p] = "green"
    /\ \E p \in DataPos : fills[p] = "blue"
    /\ \E p \in DataPos : parts[p].name = <<>> /\ parts[p].age = Some(24)
                          /\ fills[p] = "none"

\* the band of the section a count row closes
SectionBand(p) == parts[p - 1].cat
LastNonEmptyBand ==
    CHOOSE b \in NonEmptyBands : \A c \in NonEmptyBands : Rank(c) <= Rank(b)
BlankFollows(p) == p < Len(parts) /\ parts[p + 1].tag = "blank"

\* C2 as stated: a blank row follows a band's count row iff the band is not
\* the last non-empty band, so the output never ends with a blank row.
C2_NoTrailingBlank ==
    Assembled =>
        /\ \A p \in CountPos : BlankFollows(p) <=> (SectionBand(p) # LastNonEmptyBand)
        /\ parts[Len(parts)].tag # "blank"

\* C2 amended: a blank row follows a band's count row iff the band is not
\* Unknown, the last band of the iteration order; blank rows occur nowhere
\* else, and the output ends with a blank row iff no record is Unknown.
C2_BlankUnlessUnknown ==
    Assembled =>
        /\ \A p \in CountPos : BlankFollows(p) <=> (SectionBand(p) # "Unknown")
        /\ \A p \in BlankPos : p > 1 /\ parts[p - 1].tag = "count"
        /\ (parts[Len(parts)].tag = "blank") <=> ("Unknown" \notin NonEmptyBands)

\* two bands, the second of them Unknown: one blank row between them and
\* none at the end
C2_Witness ==
    /\ pc = "written"
    /\ Cardinality(NonEmptyBands) = 2
    /\ "Unknown" \in NonEmptyBands
    /\ Cardinality(BlankPos) = 1
    /\ parts[Len(parts)].tag = "count"

(***************************************************************************)
(* Properties of main                                                      *)
(***************************************************************************)

XlsxNames == {n \in 1..Len(listing) : listing[n].xlsx}
LinesOf(n) == {l \in 1..Len(log) : log[l][2] = n}
Outcome(n) ==
    IF listing[n].exists THEN "skipped"
    ELSE IF listing[n].fate = "ok" THEN "processed" ELSE "failed"

\* every .xlsx file has exactly one line of the log, with its outcome, the
\* other entries have none, and the summary is the last line
HandledOnce ==
    /\ \A n \in XlsxNames :
          /\ Cardinality(LinesOf(n)) = 1
          /\ \A l \in LinesOf(n) : log[l][1] = Outcome(n)
    /\ \A n \in (1..Len(listing)) \ XlsxNames : LinesOf(n) = {}
    /\ Len(log) = Cardinality(XlsxNames) + 1
    /\ log[Len(log)] = <<"summary", 0>>

Ended == pc \in {"returned", "done", "crashed"}

\* C10 as stated: a run over the input directory handles every .xlsx file
\* exactly once as skipped, processed or failed, whatever fails, and ends
\* with the final summary.
C10_AlwaysSummary ==
    (isdir /\ Ended) => HandledOnce

\* C10 amended: a run over an input directory that holds at least one .xlsx
\* file reaches the final summary, and has then handled every .xlsx file
\* exactly once as skipped, processed or failed; a directory without .xlsx
\* files ends the run with the no-files notice instead of the summary.
C10_BatchCompletes ==
    /\ [](pc = "loop" => <>(pc = "done"))
    /\ [](pc = "done" => HandledOnce)
    /\ []((isdir /\ Ended /\ XlsxNames # {}) => pc = "done")
    /\ []((isdir /\ Ended /\ XlsxNames = {}) => log = <<<<"no_files", 0>>>>)

\* the run is over, a file failed and a later file was processed
C10_Witness ==
    /\ pc = "done"
    /\ \E l1, l2 \in 1..Len(log) :
          l1 < l2 /\ log[l1][1] = "failed" /\ log[l2][1] = "processed"
    /\ \E l \in 1..Len(log) : log[l][1] = "skipped"

====
